---- MODULE Spec2Model ----
(***************************************************************************)
(* Model of the grooveshare room synchronisation and admission engine.     *)
(*                                                                         *)
(*  - server/index.ts: the HTTP room routes (POST /api/rooms, POST         *)
(*    /api/rooms/:code/join, GET participants) and the WebSocket handler   *)
(*    (connections / roomConnections maps, broadcastToRoom, the message    *)
(*    and close handlers).                                                 *)
(*    PUT /api/rooms/:id and POST /api/auth/signup write the rooms and     *)
(*    users tables.                                                        *)
(*  - src/hooks/useRoomWebSocket.ts: the client hook that opens the        *)
(*    socket, sends join on open, and schedules a reconnect on close.      *)
(*  - src/pages/Lobby.tsx, src/pages/Room.tsx: the approval status and     *)
(*    the room a page shows, and the handlers that change the room.        *)
(*  - the join-request routes (create / approve / reject) and the          *)
(*    participant status route have only their callers in the sources      *)
(*    (lib/api.ts, the lobby panels, Room.tsx); they are modelled from     *)
(*    section 4.3 and section 6 of the specification.                      *)
(*                                                                         *)
(* Participant and join-request rows name their room by its join code;    *)
(* the rows of the rooms table carry the id of the room next to the code.  *)
(* JSON values are modelled by strings; "undefined" is the absent field.   *)
(***************************************************************************)
EXTENDS Integers, FiniteSets, Sequences, TLC

\* ---------------------------------------------------------------- bounds
MaxSockets == 2
MaxHooks == 2
MaxIds == 3
MaxLobbySockets == 1
MaxInFlight == 2
MaxDelivered == 2
MaxUsers == 2
MaxAttempts == 5

Sockets == 1..MaxSockets
Hooks == 1..MaxHooks

\* null: the value of a reference that holds no socket, no hook instance
\* and no row id.
Null == 0
NoSocket == Null
NoHook == Null
NoId == Null

RoomCodes == {"ABC123", "XYZ789"}
Users == {"alice", "bob"}
Positions == {"42.5"}
Undefined == "undefined"
Emails == {"ann@example.org", "ben@example.org", "cat@example.org"}
Passwords == {"secret"}
PageKinds == {"lobby", "room"}

\* ---------------------------------------------------------------- state
VARIABLES
  rooms,             \* table rooms: the codes of the stored rooms
  roomRows,          \* table rooms: the rows, with id and playback state
  users,             \* table users: the rows in insertion order
  userRoles,         \* table user_roles: set of rows
  roomParticipants,  \* table room_participants: set of rows
  roomJoinRequests,  \* table room_join_requests: set of rows
  nextId,            \* number of ids drawn so far by randomUUID()
  connections,       \* Map<WebSocket, RoomConnection>
  roomConnections,   \* Map<string, Set<WebSocket>>
  readyState,        \* server side ws.readyState of each socket; a socket
                     \* that is not connected counts as CLOSED
  clientState,       \* readyState of the WebSocket object the hook holds
  hookOf,            \* the hook instance whose connect() created the socket
  outbox,            \* sockets whose join frame, sent by onopen, is in flight
  hooks,             \* the useRoomWebSocket instances, each with the
                     \* approval status its page shows and, once the
                     \* page has its room, the room and the updateRoom
                     \* call it awaits
  last,              \* the last handler that ran, its input and its output
  inFlight,          \* per socket: the frames sent on it and not yet handled
  delivered          \* per socket: the messages sent to it, in order

vars == <<rooms, roomRows, users, userRoles, roomParticipants,
          roomJoinRequests, nextId, connections, roomConnections, readyState,
          clientState, hookOf, outbox, hooks, last, inFlight, delivered>>

roomTable == <<rooms, roomRows>>
accounts == <<users, userRoles>>
durable == <<roomTable, accounts, roomParticipants, roomJoinRequests, nextId>>
registry == <<connections, roomConnections>>
transport == <<readyState, clientState, hookOf, outbox>>
order == <<inFlight, delivered>>

\* ---------------------------------------------------------------- values
NoConn == [roomCode |-> "#none", username |-> "#none"]

RoomConnection(roomCode, username) ==
  [roomCode |-> roomCode, username |-> username]

NoPayload == [kind |-> Undefined, position |-> Undefined, fields |-> Undefined]

SeekPayloads ==
  {[kind |-> "object", position |-> p, fields |-> Undefined] : p \in Positions}

UpdatePayloads ==
  {[kind |-> "object", position |-> Undefined, fields |-> f] :
     f \in {"is_playing", "playback_position"}}

InMsg(type, roomCode, username, payload) ==
  [type |-> type, roomCode |-> roomCode, username |-> username,
   payload |-> payload]

NoMessage == InMsg("#none", Undefined, Undefined, NoPayload)

\* The frames a client can put on an open socket.
Messages ==
  {InMsg("join", c, u, NoPayload) :
     c \in RoomCodes \cup {Undefined}, u \in Users}
  \cup {InMsg("room_update", Undefined, Undefined, p) :
          p \in UpdatePayloads \cup {NoPayload}}
  \cup {InMsg("seek", Undefined, u, p) :
          u \in Users, p \in SeekPayloads \cup {NoPayload}}
  \cup {InMsg(Undefined, Undefined, Undefined, NoPayload),
        InMsg("#unparseable", Undefined, Undefined, NoPayload)}

OutMsg(type, username, position, payload, userId, status) ==
  [type |-> type, username |-> username, position |-> position,
   payload |-> payload, userId |-> userId, status |-> status]

UserJoined(username) ==
  OutMsg("user_joined", username, Undefined, NoPayload, Undefined, Undefined)

UserLeft(username) ==
  OutMsg("user_left", username, Undefined, NoPayload, Undefined, Undefined)

\* A faulty forward that drops the payload.
RoomUpdateWithoutPayload(payload) ==
  OutMsg("room_update", Undefined, Undefined, NoPayload, Undefined, Undefined)

RoomUpdate(payload) ==
  OutMsg("room_update", Undefined, Undefined, payload, Undefined, Undefined)

Seek(position, username) ==
  OutMsg("seek", username, position, NoPayload, Undefined, Undefined)

ApprovalStatus(userId, status) ==
  OutMsg("approval_status", Undefined, Undefined, NoPayload, userId, status)

NoArg == [code |-> Undefined, username |-> Undefined, id |-> NoId]

Event(op, ws, message, arg, status, result, deliveries) ==
  [op |-> op, ws |-> ws, message |-> message, arg |-> arg,
   status |-> status, result |-> result, deliveries |-> deliveries]

NoEvent == Event("#none", NoSocket, NoMessage, NoArg, 0, NoId, {})

\* The fields a PUT body can carry, absent ones as undefined.
Updates(video_url, playback_position, is_playing, subtitle_enabled) ==
  [video_url |-> video_url, playback_position |-> playback_position,
   is_playing |-> is_playing, subtitle_enabled |-> subtitle_enabled]

NoUpdates == Updates(Undefined, Undefined, Undefined, Undefined)

\* useState<RoomData | null>(null): the page has no room yet.
NoPage == << >>

\* An api.updateRoom call of the page that has not resolved: the id it
\* names, its body, and whether the page refreshes its room afterwards.
Put(id, updates, refresh) ==
  [id |-> id, updates |-> updates, refresh |-> refresh]

NoPut == Put("null", NoUpdates, FALSE)

\* The page has its room: the room it shows and the call it awaits.
Page(room, put) ==
  <<[room |-> room, put |-> put]>>

HasRoom(hk) == hk.page # NoPage
RoomOf(hk) == hk.page[1].room
PutOf(hk) == hk.page[1].put

\* The player of a room page: isSyncingRef.current, and the seeked
\* event the video element has yet to fire with what moved the position
\* ("none": no event is due).
Player(syncing, seeked) ==
  [syncing |-> syncing, seeked |-> seeked]

\* useRef(false), and a video element whose position nothing has moved.
NoPlayer == Player(FALSE, "none")

NoHookState ==
  [mounted |-> FALSE, kind |-> "#none", roomCode |-> Undefined,
   userId |-> Undefined, wsRef |-> NoSocket, reconnectTimeout |-> FALSE,
   status |-> "pending", page |-> NoPage, player |-> NoPlayer]

\* ---------------------------------------------------------------- Init
Init ==
  /\ rooms = {}
  /\ roomParticipants = {}
  /\ roomJoinRequests = {}
  /\ nextId = 0
  /\ roomRows = {}
  /\ users = << >>
  /\ userRoles = {}
  /\ connections = [ws \in Sockets |-> NoConn]
  /\ roomConnections = << >>
  /\ readyState = [ws \in Sockets |-> "CLOSED"]
  /\ clientState = [ws \in Sockets |-> "CLOSED"]
  /\ hookOf = [ws \in Sockets |-> NoHook]
  /\ outbox = {}
  /\ hooks = [h \in Hooks |-> NoHookState]
  /\ last = NoEvent
  /\ inFlight = [ws \in Sockets |-> << >>]
  /\ delivered = [ws \in Sockets |-> << >>]

\* ------------------------------------------------- connection registry
\* A faulty register that makes ws the only member of the room's set.
RegisterAlone(rc, roomCode, ws) ==
  [k \in DOMAIN rc \cup {roomCode} |->
     IF k = roomCode THEN {ws} ELSE rc[k]]

\* Map.set / Set.add on roomConnections, as the join branch does it.
Register(rc, roomCode, ws) ==
  IF roomCode \in DOMAIN rc
  THEN [rc EXCEPT ![roomCode] = @ \cup {ws}]
  ELSE [k \in DOMAIN rc \cup {roomCode} |->
          IF k = roomCode THEN {ws} ELSE rc[k]]

\* Set.delete, and Map.delete of the room entry when its set is empty.
Unregister(rc, roomCode, ws) ==
  IF roomCode \notin DOMAIN rc THEN rc
  ELSE IF rc[roomCode] \ {ws} = {}
       THEN [k \in DOMAIN rc \ {roomCode} |-> rc[k]]
       ELSE [rc EXCEPT ![roomCode] = @ \ {ws}]

\* A faulty broadcaster that sends to nobody.
broadcastToNobody(rc, roomCode, message, excludeWs) ==
  {}

\* A faulty broadcaster that does not look at readyState.
broadcastToEveryState(rc, roomCode, message, excludeWs) ==
  IF roomCode \notin DOMAIN rc THEN {}
  ELSE {[to |-> client, msg |-> message] :
          client \in {c \in rc[roomCode] : c # excludeWs}}

\* The sends of one broadcastToRoom call over the registry rc.
broadcastToRoom(rc, roomCode, message, excludeWs) ==
  IF roomCode \notin DOMAIN rc THEN {}
  ELSE {[to |-> client, msg |-> message] :
          client \in {c \in rc[roomCode] :
                        readyState[c] = "OPEN" /\ c # excludeWs}}


\* ------------------------------------------------- WebSocket handlers
\* connections after the join branch: connections.set(ws, conn).
JoinConnections(ws, message) ==
  [connections EXCEPT ![ws] = RoomConnection(message.roomCode, message.username)]

\* roomConnections after the join branch.
JoinRoomConnections(ws, message) ==
  Register(roomConnections, message.roomCode, ws)

\* The join branch broadcasts user_joined over the updated registry.
JoinDeliveries(ws, message) ==
  broadcastToRoom(JoinRoomConnections(ws, message), message.roomCode,
                  UserJoined(message.username), NoSocket)

\* A faulty room_update branch that forwards for every connection, to
\* every room.
RoomUpdateToAll(ws, message) ==
  UNION {broadcastToRoom(roomConnections, k, RoomUpdate(message.payload),
                         NoSocket) : k \in DOMAIN roomConnections}

\* The room_update branch: forwarded only for a connection that joined.
RoomUpdateDeliveries(ws, message) ==
  IF connections[ws] # NoConn
  THEN broadcastToRoom(roomConnections, connections[ws].roomCode,
                       RoomUpdate(message.payload), NoSocket)
  ELSE {}

\* The seek branch: payload.position throws on a missing payload and the
\* catch block swallows it; username is the one named in the frame.
SeekDeliveries(ws, message) ==
  IF connections[ws] # NoConn /\ message.payload.kind # Undefined
  THEN broadcastToRoom(roomConnections, connections[ws].roomCode,
                       Seek(message.payload.position, message.username),
                       NoSocket)
  ELSE {}

\* A faulty handler that takes every frame it does not know for a join.
HandleMessageLax(ws, message) ==
  /\ IF message.type = "room_update"
     THEN /\ UNCHANGED registry
          /\ last' = Event("room_update", ws, message, NoArg, 0, NoId,
                           RoomUpdateDeliveries(ws, message))
     ELSE IF message.type = "seek"
     THEN /\ UNCHANGED registry
          /\ last' = Event("seek", ws, message, NoArg, 0, NoId,
                           SeekDeliveries(ws, message))
     ELSE /\ connections' = JoinConnections(ws, message)
          /\ roomConnections' = JoinRoomConnections(ws, message)
          /\ last' = Event(IF message.type = "join" THEN "join" ELSE "dropped",
                           ws, message, NoArg, 0, NoId,
                           JoinDeliveries(ws, message))
  /\ UNCHANGED <<durable, hooks>>

\* A faulty handler whose seek branch also stores the position in the
\* room of the connection.
HandleMessagePersisting(ws, message) ==
  /\ IF message.type = "join"
     THEN /\ connections' = JoinConnections(ws, message)
          /\ roomConnections' = JoinRoomConnections(ws, message)
          /\ last' = Event("join", ws, message, NoArg, 0, NoId,
                           JoinDeliveries(ws, message))
          /\ UNCHANGED roomRows
     ELSE IF message.type = "room_update"
     THEN /\ UNCHANGED <<registry, roomRows>>
          /\ last' = Event("room_update", ws, message, NoArg, 0, NoId,
                           RoomUpdateDeliveries(ws, message))
     ELSE IF message.type = "seek"
     THEN /\ UNCHANGED registry
          /\ last' = Event("seek", ws, message, NoArg, 0, NoId,
                           SeekDeliveries(ws, message))
          /\ roomRows' =
               {IF r.code = connections[ws].roomCode
                   /\ message.payload.kind # Undefined
                THEN [r EXCEPT !.playback_position = message.payload.position]
                ELSE r : r \in roomRows}
     ELSE /\ UNCHANGED <<registry, roomRows>>
          /\ last' = Event("dropped", ws, message, NoArg, 0, NoId, {})
  /\ UNCHANGED <<rooms, accounts, roomParticipants, roomJoinRequests, nextId,
                 hooks>>

\* ws.on("message"): the handler of one inbound frame.
HandleMessage(ws, message) ==
  /\ IF message.type = "join"
     THEN /\ connections' = JoinConnections(ws, message)
          /\ roomConnections' = JoinRoomConnections(ws, message)
          /\ last' = Event("join", ws, message, NoArg, 0, NoId,
                           JoinDeliveries(ws, message))
     ELSE IF message.type = "room_update"
     THEN /\ UNCHANGED registry
          /\ last' = Event("room_update", ws, message, NoArg, 0, NoId,
                           RoomUpdateDeliveries(ws, message))
     ELSE IF message.type = "seek"
     THEN /\ UNCHANGED registry
          /\ last' = Event("seek", ws, message, NoArg, 0, NoId,
                           SeekDeliveries(ws, message))
     ELSE /\ UNCHANGED registry
          /\ last' = Event("dropped", ws, message, NoArg, 0, NoId, {})
  /\ UNCHANGED <<durable, hooks>>

\* The socket objects free for a new connection of hook instance h (or of
\* a foreign client, h = NoHook): closed on both sides, held by no other
\* instance's wsRef and by no entry of the registry.
FreeSockets(h) ==
  {ws \in Sockets :
     /\ clientState[ws] = "CLOSED"
     /\ readyState[ws] = "CLOSED"
     /\ connections[ws] = NoConn
     /\ \A k \in DOMAIN roomConnections : ws \notin roomConnections[k]
     /\ \A g \in Hooks \ {h} : hooks[g].wsRef # ws}

\* wss.on("connection") for a client that is not the hook of this
\* repository: the upgrade on /ws completes and the socket is open.
OnConnection(ws) ==
  /\ UNCHANGED order
  /\ ws \in FreeSockets(NoHook)
  /\ \A other \in FreeSockets(NoHook) : ws <= other
  /\ hookOf' = [hookOf EXCEPT ![ws] = NoHook]
  /\ readyState' = [readyState EXCEPT ![ws] = "OPEN"]
  /\ last' = NoEvent
  /\ UNCHANGED <<durable, registry, clientState, outbox, hooks>>

\* A frame arrives on an open socket.
OnMessage(ws, message) ==
  /\ UNCHANGED order
  /\ readyState[ws] = "OPEN"
  /\ HandleMessage(ws, message)
  /\ UNCHANGED transport

\* A faulty close handler that leaves the socket in its room's set.
CloseRoomConnectionsKept(ws) ==
  roomConnections

\* roomConnections after the close handler of a registered connection.
CloseRoomConnections(ws) ==
  Unregister(roomConnections, connections[ws].roomCode, ws)

\* A faulty close handler that keeps the entry of the socket.
CloseConnectionsKept(ws) ==
  connections

\* connections after the close handler: connections.delete(ws).
CloseConnections(ws) ==
  [connections EXCEPT ![ws] = NoConn]

\* The close handler broadcasts user_left after the removal.
CloseDeliveries(ws) ==
  broadcastToRoom(CloseRoomConnections(ws), connections[ws].roomCode,
                  UserLeft(connections[ws].username), NoSocket)

\* The transport of an open socket starts closing: the socket is no longer
\* OPEN on the server, and its close event has not been emitted yet.
BeginClose(ws) ==
  /\ UNCHANGED order
  /\ readyState[ws] = "OPEN"
  /\ readyState' = [readyState EXCEPT ![ws] = "CLOSING"]
  /\ outbox' = outbox \ {ws}
  /\ last' = NoEvent
  /\ UNCHANGED <<durable, registry, clientState, hookOf, hooks>>

\* ws.on("close"): emitted once the socket has left OPEN.
OnClose(ws) ==
  /\ UNCHANGED order
  /\ readyState[ws] = "CLOSING"
  /\ readyState' = [readyState EXCEPT ![ws] = "CLOSED"]
  /\ IF connections[ws] # NoConn
     THEN /\ roomConnections' = CloseRoomConnections(ws)
          /\ connections' = CloseConnections(ws)
          /\ last' = Event("close", ws, NoMessage,
                           [code |-> connections[ws].roomCode,
                            username |-> connections[ws].username,
                            id |-> NoId],
                           0, NoId, CloseDeliveries(ws))
     ELSE /\ UNCHANGED registry
          /\ last' = Event("close", ws, NoMessage, NoArg, 0, NoId, {})
  /\ outbox' = outbox \ {ws}
  /\ UNCHANGED <<durable, clientState, hookOf, hooks>>

\* ------------------------------------------------- durable room routes
\* A row of room_participants as an insert that names only id, roomId,
\* username and joinedAt leaves it: isHost and status take their defaults.
ParticipantRow(id, roomId, username) ==
  [id |-> id, roomId |-> roomId, username |-> username,
   isHost |-> FALSE, status |-> "active"]

JoinRequestRow(id, roomId, userId, status) ==
  [id |-> id, roomId |-> roomId, userId |-> userId, status |-> status]

\* GET /api/rooms/:id/participants.
listParticipants(roomId) ==
  {p \in roomParticipants : p.roomId = roomId}

\* room_participants after the insert of POST /api/rooms/:code/join.
JoinInsert(code, username) ==
  roomParticipants \cup {ParticipantRow(nextId + 1, code, username)}

\* The values a rooms row holds for the fields a client can update.
RoomFields ==
  {"video_url", "playback_position", "is_playing", "subtitle_enabled"}

\* The ids randomUUID() returns for rooms: distinct from each other and
\* from every join code.
RoomIds == {"room-1", "room-2", "room-3"}

FreeRoomIds == {id \in RoomIds : \A r \in roomRows : r.id # id}

NewRoomId == CHOOSE id \in FreeRoomIds : TRUE

\* The row POST /api/rooms inserts.
RoomRow(id, code) ==
  [id |-> id, code |-> code, video_url |-> "null", playback_position |-> "0",
   is_playing |-> "false", subtitle_enabled |-> "false"]

\* The select of the retry loop finds a room with the code.
CodeTaken(code) ==
  \E r \in roomRows : r.code = code

\* A rooms table without the UNIQUE constraint on code.
UniqueNotEnforced(code) ==
  FALSE

\* code TEXT NOT NULL UNIQUE: an insert with a stored code throws.
UniqueViolated(code) ==
  \E r \in roomRows : r.code = code

\* The draws of generateRoomCode one request can use: the first and one
\* for each retry.
Draws == [1..(MaxAttempts + 1) -> RoomCodes]

\* The code POST /api/rooms ends its loop with: the first draw that is
\* not stored, or the draw of the last retry.
RECURSIVE RetryCode(_, _)
RetryCode(draws, attempts) ==
  IF CodeTaken(Head(draws)) /\ attempts < MaxAttempts
  THEN RetryCode(Tail(draws), attempts + 1)
  ELSE Head(draws)

\* POST /api/rooms: the generated code is free of collision, or every
\* attempt collided and the insert fails on the UNIQUE code column.
CreateRoom(username, code) ==
  /\ UNCHANGED order
  /\ IF username = ""
     THEN /\ UNCHANGED durable
          /\ last' = Event("createRoom", NoSocket, NoMessage,
                           [code |-> code, username |-> username, id |-> NoId],
                           400, NoId, {})
     ELSE IF UniqueViolated(code)
     THEN /\ UNCHANGED durable
          /\ last' = Event("createRoom", NoSocket, NoMessage,
                           [code |-> code, username |-> username, id |-> NoId],
                           500, NoId, {})
     ELSE /\ nextId < MaxIds
          /\ FreeRoomIds # {}
          /\ rooms' = rooms \cup {code}
          /\ roomRows' = roomRows \cup {RoomRow(NewRoomId, code)}
          /\ UNCHANGED accounts
          /\ roomParticipants' = JoinInsert(code, username)
          /\ nextId' = nextId + 1
          /\ UNCHANGED roomJoinRequests
          /\ last' = Event("createRoom", NoSocket, NoMessage,
                           [code |-> code, username |-> username, id |-> NoId],
                           200, NoId, {})
  /\ UNCHANGED <<registry, transport, hooks>>

\* A faulty join route that does not look the room up.
JoinRoomUnchecked(code, username) ==
  /\ UNCHANGED order
  /\ nextId < MaxIds
  /\ roomParticipants' = JoinInsert(code, username)
  /\ nextId' = nextId + 1
  /\ UNCHANGED <<roomTable, accounts, roomJoinRequests>>
  /\ last' = Event("joinRoom", NoSocket, NoMessage,
                   [code |-> code, username |-> username, id |-> NoId],
                   200, NoId, {})
  /\ UNCHANGED <<registry, transport, hooks>>

\* POST /api/rooms/:code/join.
JoinRoom(code, username) ==
  /\ UNCHANGED order
  /\ IF username = ""
     THEN /\ UNCHANGED durable
          /\ last' = Event("joinRoom", NoSocket, NoMessage,
                           [code |-> code, username |-> username, id |-> NoId],
                           400, NoId, {})
     ELSE IF code \notin rooms
     THEN /\ UNCHANGED durable
          /\ last' = Event("joinRoom", NoSocket, NoMessage,
                           [code |-> code, username |-> username, id |-> NoId],
                           404, NoId, {})
     ELSE /\ nextId < MaxIds
          /\ roomParticipants' = JoinInsert(code, username)
          /\ nextId' = nextId + 1
          /\ UNCHANGED <<roomTable, accounts, roomJoinRequests>>
          /\ last' = Event("joinRoom", NoSocket, NoMessage,
                           [code |-> code, username |-> username, id |-> NoId],
                           200, NoId, {})
  /\ UNCHANGED <<registry, transport, hooks>>

\* ------------------------------------------------- durable room state
\* The JSON values of the model, as their texts: numbers, booleans, null,
\* the absent value, and every other text as a string.
JsonNumbers == {"0", "42.5", "-5"}

JsonBooleans == {"true", "false"}

\* typeof value.
typeof(value) ==
  IF value \in JsonNumbers THEN "number"
  ELSE IF value \in JsonBooleans THEN "boolean"
  ELSE IF value = Undefined THEN "undefined"
  ELSE IF value = "null" THEN "object"
  ELSE "string"

\* The type each typeof test of PUT /api/rooms/:id asks for.
ExpectedType ==
  [video_url |-> "string", playback_position |-> "number",
   is_playing |-> "boolean", subtitle_enabled |-> "boolean"]

\* A handler that stores whatever the body carries for a field.
ApplyUntyped(row, updates) ==
  [f \in DOMAIN row |->
     IF f \in RoomFields /\ updates[f] # Undefined
     THEN updates[f] ELSE row[f]]

\* The row after db.update(rooms).set(payload): the payload holds the
\* fields of the body that pass their typeof test, and these replace the
\* stored ones.
ApplyUpdates(row, updates) ==
  [f \in DOMAIN row |->
     IF f \in RoomFields /\ typeof(updates[f]) = ExpectedType[f]
     THEN updates[f] ELSE row[f]]

\* The rooms table after PUT /api/rooms/:id.
UpdateRoomRows(id, updates) ==
  {IF r.id = id THEN ApplyUpdates(r, updates) ELSE r : r \in roomRows}

\* The status of PUT /api/rooms/:id: the room is looked up by its id.
UpdateRoomStatus(id) ==
  IF \E r \in roomRows : r.id = id THEN 200 ELSE 404

UpdateRoomEvent(id) ==
  Event("updateRoom", NoSocket, NoMessage,
        [code |-> id, username |-> Undefined, id |-> NoId],
        UpdateRoomStatus(id), NoId, {})

\* PUT /api/rooms/:id.
UpdateRoom(id, updates) ==
  /\ UNCHANGED order
  /\ roomRows' = UpdateRoomRows(id, updates)
  /\ last' = UpdateRoomEvent(id)
  /\ UNCHANGED <<rooms, accounts, roomParticipants, roomJoinRequests, nextId,
                 registry, transport, hooks>>

\* ------------------------------------------------- accounts
\* A faulty lookup that never finds an admin.
hasNoAdmin(roles) ==
  FALSE

\* The user_roles table holds a row with role admin.
hasAdmin(roles) ==
  \E r \in roles : r.role = "admin"

\* The users rows with the email.
existing(email) ==
  {i \in DOMAIN users : users[i].email = email}

\* POST /api/auth/signup; the id of a user is the ordinal of its row.
Signup(email, password) ==
  /\ UNCHANGED order
  /\ IF email = "" \/ password = ""
     THEN /\ UNCHANGED accounts
          /\ last' = Event("signup", NoSocket, NoMessage,
                           [code |-> Undefined, username |-> email,
                            id |-> NoId],
                           400, NoId, {})
     ELSE IF existing(email) # {}
     THEN /\ UNCHANGED accounts
          /\ last' = Event("signup", NoSocket, NoMessage,
                           [code |-> Undefined, username |-> email,
                            id |-> NoId],
                           400, NoId, {})
     ELSE /\ Len(users) < MaxUsers
          /\ users' = Append(users, [id |-> Len(users) + 1, email |-> email])
          /\ userRoles' =
               userRoles
                 \cup {[userId |-> Len(users) + 1, role |-> "user"]}
                 \cup (IF hasAdmin(userRoles) THEN {}
                       ELSE {[userId |-> Len(users) + 1, role |-> "admin"]})
          /\ last' = Event("signup", NoSocket, NoMessage,
                           [code |-> Undefined, username |-> email,
                            id |-> NoId],
                           200, Len(users) + 1, {})
  /\ UNCHANGED <<roomTable, roomParticipants, roomJoinRequests, nextId,
                 registry, transport, hooks>>

\* ------------------------------------------------- admission controller
PendingRequests(code, userId) ==
  {q \in roomJoinRequests :
     q.roomId = code /\ q.userId = userId /\ q.status = "pending"}

\* createJoinRequest: a pending request for the identity is returned as it
\* is, otherwise a new pending request is stored.
CreateJoinRequest(code, userId) ==
  /\ UNCHANGED order
  /\ IF code \notin rooms
     THEN /\ UNCHANGED durable
          /\ last' = Event("createJoinRequest", NoSocket, NoMessage,
                           [code |-> code, username |-> userId, id |-> NoId],
                           404, NoId, {})
     ELSE IF PendingRequests(code, userId) # {}
     THEN /\ UNCHANGED durable
          /\ last' = Event("createJoinRequest", NoSocket, NoMessage,
                           [code |-> code, username |-> userId, id |-> NoId],
                           200,
                           (CHOOSE q \in PendingRequests(code, userId) : TRUE).id,
                           {})
     ELSE /\ nextId < MaxIds
          /\ roomJoinRequests' = roomJoinRequests \cup
               {JoinRequestRow(nextId + 1, code, userId, "pending")}
          /\ nextId' = nextId + 1
          /\ UNCHANGED <<roomTable, accounts, roomParticipants>>
          /\ last' = Event("createJoinRequest", NoSocket, NoMessage,
                           [code |-> code, username |-> userId, id |-> NoId],
                           200, nextId + 1, {})
  /\ UNCHANGED <<registry, transport, hooks>>

\* A faulty pending test that accepts every stored request.
IsStored(requestId) ==
  \E q \in roomJoinRequests : q.id = requestId

\* The request is stored and has not been resolved.
IsPending(requestId) ==
  \E q \in roomJoinRequests : q.id = requestId /\ q.status = "pending"

\* A faulty resolution that records every resolved request as approved.
ResolveAsApproved(requestId, status) ==
  {IF q.id = requestId /\ q.status = "pending"
   THEN [q EXCEPT !.status = "approved"] ELSE q : q \in roomJoinRequests}

\* resolveJoinRequest: the request leaves pending; a terminal request stays.
ResolveJoinRequest(requestId, status) ==
  {IF q.id = requestId /\ q.status = "pending"
   THEN [q EXCEPT !.status = status] ELSE q : q \in roomJoinRequests}

\* The participant of an approved identity is reactivated, or created.
ActivateParticipant(code, userId) ==
  IF \E p \in roomParticipants : p.roomId = code /\ p.username = userId
  THEN {IF p.roomId = code /\ p.username = userId
        THEN [p EXCEPT !.status = "active"] ELSE p : p \in roomParticipants}
  ELSE roomParticipants \cup {ParticipantRow(nextId + 1, code, userId)}

\* approve(roomCode, requestId).
ApproveJoinRequest(code, requestId) ==
  /\ UNCHANGED order
  /\ \E q \in roomJoinRequests :
       /\ q.id = requestId
       /\ q.roomId = code
       /\ IF IsPending(requestId)
          THEN /\ nextId < MaxIds
               /\ roomJoinRequests' = ResolveJoinRequest(requestId, "approved")
               /\ roomParticipants' = ActivateParticipant(code, q.userId)
               /\ nextId' = Cardinality(roomParticipants') -
                            Cardinality(roomParticipants) + nextId
               /\ UNCHANGED <<roomTable, accounts>>
               /\ last' = Event("approve", NoSocket, NoMessage,
                                [code |-> code, username |-> q.userId,
                                 id |-> requestId],
                                200, requestId,
                                broadcastToRoom(roomConnections, code,
                                   ApprovalStatus(q.userId, "active"),
                                   NoSocket))
          ELSE /\ UNCHANGED durable
               /\ last' = Event("approve", NoSocket, NoMessage,
                                [code |-> code, username |-> q.userId,
                                 id |-> requestId],
                                200, requestId, {})
  /\ UNCHANGED <<registry, transport, hooks>>

\* reject(roomCode, requestId).
RejectJoinRequest(code, requestId) ==
  /\ UNCHANGED order
  /\ \E q \in roomJoinRequests :
       /\ q.id = requestId
       /\ q.roomId = code
       /\ IF IsPending(requestId)
          THEN /\ roomJoinRequests' = ResolveJoinRequest(requestId, "rejected")
               /\ UNCHANGED <<roomTable, accounts, roomParticipants, nextId>>
               /\ last' = Event("reject", NoSocket, NoMessage,
                                [code |-> code, username |-> q.userId,
                                 id |-> requestId],
                                200, requestId,
                                broadcastToRoom(roomConnections, code,
                                   ApprovalStatus(q.userId, "rejected"),
                                   NoSocket))
          ELSE /\ UNCHANGED durable
               /\ last' = Event("reject", NoSocket, NoMessage,
                                [code |-> code, username |-> q.userId,
                                 id |-> requestId],
                                200, requestId, {})
  /\ UNCHANGED <<registry, transport, hooks>>

\* setParticipantStatus(roomCode, identity, status).
SetParticipantStatus(code, username, status) ==
  {IF p.roomId = code /\ p.username = username
   THEN [p EXCEPT !.status = status] ELSE p : p \in roomParticipants}

\* api.updateParticipantStatus as Room.tsx calls it, with status "left".
UpdateParticipantStatus(code, username) ==
  /\ UNCHANGED order
  /\ code \in rooms
  /\ roomParticipants' = SetParticipantStatus(code, username, "left")
  /\ UNCHANGED <<roomTable, accounts, roomJoinRequests, nextId>>
  /\ last' = Event("updateParticipantStatus", NoSocket, NoMessage,
                   [code |-> code, username |-> username, id |-> NoId],
                   200, NoId, {})
  /\ UNCHANGED <<registry, transport, hooks>>

\* ------------------------------------------------- useRoomWebSocket
NewSocket(h) ==
  CHOOSE ws \in FreeSockets(h) : \A other \in FreeSockets(h) : ws <= other

\* wsRef.current?.readyState === WebSocket.OPEN
RefIsOpen(hk, h) ==
  IF hk[h].wsRef = NoSocket THEN FALSE ELSE clientState[hk[h].wsRef] = "OPEN"

\* connect() of the instance in state hk: returns at once without room
\* code or identity, or when the instance's socket is open; otherwise it
\* creates a socket and stores it in wsRef.
connect(h, hk) ==
  IF /\ hk[h].roomCode # Undefined
     /\ hk[h].userId # Undefined
     /\ ~RefIsOpen(hk, h)
     /\ FreeSockets(h) # {}
  THEN /\ hooks' = [hk EXCEPT ![h].wsRef = NewSocket(h)]
       /\ clientState' = [clientState EXCEPT ![NewSocket(h)] = "CONNECTING"]
       /\ UNCHANGED readyState
       /\ hookOf' = [hookOf EXCEPT ![NewSocket(h)] = h]
       /\ UNCHANGED outbox
  ELSE /\ hooks' = hk
       /\ UNCHANGED transport

\* A page that uses the hook (Lobby, Room) mounts: a new instance, whose
\* effect runs connect().
Mount(h, kind, code, userId) ==
  /\ UNCHANGED order
  /\ ~hooks[h].mounted
  /\ ~hooks[h].reconnectTimeout
  /\ \A ws \in Sockets : hookOf[ws] = h => clientState[ws] = "CLOSED"
  /\ FreeSockets(h) # {}
  /\ connect(h, [hooks EXCEPT ![h] =
                   [mounted |-> TRUE, kind |-> kind, roomCode |-> code,
                    userId |-> userId, wsRef |-> NoSocket,
                    reconnectTimeout |-> FALSE, status |-> "pending",
                    page |-> NoPage, player |-> NoPlayer]])
  /\ last' = NoEvent
  /\ UNCHANGED <<durable, registry>>

\* The effect cleanup: the pending reconnect is cancelled, the socket is
\* left as it is.
Unmount(h) ==
  /\ UNCHANGED order
  /\ hooks[h].mounted
  /\ hooks' = [hooks EXCEPT ![h].mounted = FALSE,
                            ![h].reconnectTimeout = FALSE]
  /\ last' = NoEvent
  /\ UNCHANGED <<durable, registry, transport>>

\* The frame onopen sends: join with the instance's room code and name.
HookJoin(h) ==
  InMsg("join", hooks[h].roomCode, hooks[h].userId, NoPayload)

\* The upgrade completes: the server emits "connection" and the client
\* runs onopen, which sends the join frame.
OnOpen(ws) ==
  /\ UNCHANGED order
  /\ clientState[ws] = "CONNECTING"
  /\ clientState' = [clientState EXCEPT ![ws] = "OPEN"]
  /\ readyState' = [readyState EXCEPT ![ws] = "OPEN"]
  /\ outbox' = IF hooks[hookOf[ws]].wsRef = ws THEN outbox \cup {ws} ELSE outbox
  /\ last' = NoEvent
  /\ UNCHANGED <<durable, registry, hookOf, hooks>>

\* The join frame of onopen reaches the server.
OnHookJoin(ws) ==
  /\ UNCHANGED order
  /\ ws \in outbox
  /\ readyState[ws] = "OPEN"
  /\ HandleMessage(ws, HookJoin(hookOf[ws]))
  /\ outbox' = outbox \ {ws}
  /\ UNCHANGED <<readyState, clientState, hookOf>>

\* A faulty onclose that schedules nothing.
ClientCloseForGood(ws) ==
  /\ UNCHANGED order
  /\ clientState[ws] \in {"CONNECTING", "OPEN"}
  /\ clientState' = [clientState EXCEPT ![ws] = "CLOSED"]
  /\ last' = NoEvent
  /\ UNCHANGED <<durable, registry, readyState, hookOf, outbox, hooks>>

\* The browser sees the socket closed: onclose schedules a reconnect.
ClientClose(ws) ==
  /\ UNCHANGED order
  /\ clientState[ws] \in {"CONNECTING", "OPEN"}
  /\ clientState' = [clientState EXCEPT ![ws] = "CLOSED"]
  /\ hooks' = [hooks EXCEPT ![hookOf[ws]].reconnectTimeout = TRUE]
  /\ last' = NoEvent
  /\ UNCHANGED <<durable, registry, readyState, hookOf, outbox>>

\* The reconnect timer fires and calls connect().
ReconnectTimeout(h) ==
  /\ UNCHANGED order
  /\ hooks[h].reconnectTimeout
  /\ connect(h, [hooks EXCEPT ![h].reconnectTimeout = FALSE])
  /\ last' = NoEvent
  /\ UNCHANGED <<durable, registry>>

\* ------------------------------------------------- approval_status
\* A faulty filter that takes every approval_status for its own.
IsAddressedToAnyone(message, userId) ==
  TRUE

\* message.userId === userId
IsAddressedTo(message, userId) ==
  message.userId = userId

\* The status the page shows after handleApprovalStatusChange(newStatus):
\* the lobby shows approved for active, the room page stores the value.
handleApprovalStatusChange(kind, newStatus) ==
  IF kind = "lobby" /\ newStatus = "active" THEN "approved" ELSE newStatus

\* onmessage for an approval_status frame sent to the instance's socket:
\* the callback runs when the frame names the instance's identity, and the
\* frame is consumed either way.
OnApprovalStatus(h) ==
  /\ UNCHANGED order
  /\ hooks[h].wsRef # NoSocket
  /\ \E d \in last.deliveries :
       /\ d.to = hooks[h].wsRef
       /\ d.msg.type = "approval_status"
       /\ clientState[d.to] = "OPEN"
       /\ hooks' = IF IsAddressedTo(d.msg, hooks[h].userId)
                   THEN [hooks EXCEPT ![h].status =
                           handleApprovalStatusChange(hooks[h].kind,
                                                      d.msg.status)]
                   ELSE hooks
       /\ last' = [last EXCEPT !.deliveries = @ \ {d}]
  /\ UNCHANGED <<durable, registry, transport>>

\* ------------------------------------------------- frames in order
\* The sequence number of the frame a client sends next on ws: above that
\* of every frame of ws that is in flight or whose forward is recorded.
NextSeq(ws) ==
  LET seen == {inFlight[ws][i].seq : i \in DOMAIN inFlight[ws]}
              \cup UNION {{delivered[c][i].seq :
                             i \in {j \in DOMAIN delivered[c] :
                                      delivered[c][j].from = ws}} :
                           c \in Sockets}
  IN IF seen = {} THEN 1
     ELSE 1 + CHOOSE n \in seen : \A k \in seen : k <= n

\* ws.send on an open socket: the frame joins those in flight.
Send(ws, message) ==
  /\ readyState[ws] = "OPEN"
  /\ Len(inFlight[ws]) < MaxInFlight
  /\ \A c \in Sockets : Len(delivered[c]) < MaxDelivered
  /\ NextSeq(ws) <= MaxDelivered
  /\ inFlight' = [inFlight EXCEPT
                    ![ws] = Append(@, [seq |-> NextSeq(ws), frame |-> message])]
  /\ last' = NoEvent
  /\ UNCHANGED <<durable, registry, transport, hooks, delivered>>

\* A faulty transport reader that emits the newest frame first.
NewestFrame(q) ==
  q[Len(q)]

\* The frame the next "message" event carries: the oldest in flight.
NextFrame(q) ==
  Head(q)

\* The "message" event of the oldest frame in flight: the handler runs,
\* and each of its sends is appended to the recipient's socket.
Receive(ws) ==
  /\ readyState[ws] = "OPEN"
  /\ inFlight[ws] # << >>
  /\ HandleMessage(ws, NextFrame(inFlight[ws]).frame)
  /\ inFlight' = [inFlight EXCEPT ![ws] = Tail(@)]
  /\ delivered' =
       [c \in Sockets |->
          IF \E d \in last'.deliveries : d.to = c
          THEN Append(delivered[c],
                      [from |-> ws, seq |-> NextFrame(inFlight[ws]).seq,
                       msg |-> (CHOOSE d \in last'.deliveries : d.to = c).msg])
          ELSE delivered[c]]
  /\ UNCHANGED transport

\* ------------------------------------------------- room page
\* The frame sendRoomUpdate puts on the socket.
RoomUpdateFrame(hk, payload) ==
  InMsg("room_update", hk.roomCode, hk.userId,
        [kind |-> "object", position |-> Undefined, fields |-> payload])

\* The frame sendSeek puts on the socket.
SeekFrame(hk, position) ==
  InMsg("seek", hk.roomCode, hk.userId,
        [kind |-> "object", position |-> position, fields |-> Undefined])

\* The frames of h in flight after its sends, in order: nothing is sent
\* unless wsRef is OPEN.
SendAll(h, frames) ==
  IF RefIsOpen(hooks, h)
  THEN [inFlight EXCEPT
          ![hooks[h].wsRef] =
             @ \o [i \in 1..Len(frames) |->
                     [seq |-> NextSeq(hooks[h].wsRef) + i - 1,
                      frame |-> frames[i]]]]
  ELSE inFlight

\* The frames of the handlers before have been handled and taken: the
\* scenario follows one handler's frames at a time.
RoomToSend(h) ==
  \A c \in Sockets : inFlight[c] = << >> /\ delivered[c] = << >>

\* fetchRoom: GET /api/rooms/:code, then setRoom(mapRoom(data.room)).
FetchRoom(h) ==
  /\ hooks[h].mounted
  /\ hooks[h].kind = "room"
  /\ ~HasRoom(hooks[h])
  /\ \E r \in roomRows :
       /\ r.code = hooks[h].roomCode
       /\ hooks' = [hooks EXCEPT ![h].page = Page(r, NoPut)]
  /\ last' = NoEvent
  /\ UNCHANGED <<durable, registry, transport, order>>

\* { ...prev, ...updates } of setRoom: the fields updates carries replace
\* those of the page's room.
SpreadUpdates(room, updates) ==
  [f \in DOMAIN room |->
     IF f \in RoomFields /\ updates[f] # Undefined
     THEN updates[f] ELSE room[f]]

\* The updates of handlePlayPause for the room the page shows, at the
\* positions the player can be at.
PageUpdates(hk) ==
  IF HasRoom(hk)
  THEN {Updates(Undefined, t,
                IF RoomOf(hk).is_playing = "true" THEN "false" ELSE "true",
                Undefined) : t \in Positions}
  ELSE {}

\* updateRoomState(updates): the page's room takes the updates, the
\* room_update is sent and api.updateRoom is called with the same fields.
UpdateRoomState(h, updates) ==
  /\ hooks[h].mounted
  /\ hooks[h].kind = "room"
  /\ HasRoom(hooks[h])
  /\ PutOf(hooks[h]) = NoPut
  /\ RoomToSend(h)
  /\ hooks' = [hooks EXCEPT
                 ![h].page = Page(SpreadUpdates(RoomOf(hooks[h]), updates),
                                  Put(RoomOf(hooks[h]).id, updates, FALSE))]
  /\ inFlight' = SendAll(h, <<RoomUpdateFrame(hooks[h], updates)>>)
  /\ last' = NoEvent
  /\ UNCHANGED <<durable, registry, transport, delivered>>

\* handleVideoTimeUpdate of a playing room: the position of the player is
\* sent as a room_update.
HandleVideoTimeUpdate(h, currentTime) ==
  /\ hooks[h].mounted
  /\ hooks[h].kind = "room"
  /\ HasRoom(hooks[h])
  /\ RoomOf(hooks[h]).is_playing = "true"
  /\ RoomToSend(h)
  /\ inFlight' =
       SendAll(h, <<RoomUpdateFrame(hooks[h],
                      Updates(Undefined, currentTime, Undefined, Undefined))>>)
  /\ last' = NoEvent
  /\ UNCHANGED <<durable, registry, transport, hooks, delivered>>

\* The page of h after updateRoomState({ playback_position: currentTime }).
SeekedPage(h, currentTime) ==
  Page(SpreadUpdates(RoomOf(hooks[h]),
                     Updates(Undefined, currentTime, Undefined, Undefined)),
       Put(RoomOf(hooks[h]).id,
           Updates(Undefined, currentTime, Undefined, Undefined), FALSE))

\* The frames onSeeked sends: the seek, then the room_update of
\* updateRoomState.
SeekedFrames(h, currentTime) ==
  <<SeekFrame(hooks[h], currentTime),
    RoomUpdateFrame(hooks[h],
                    Updates(Undefined, currentTime, Undefined, Undefined))>>

\* onSeeked of the player: sendSeek, then updateRoomState with the position.
OnSeeked(h, currentTime) ==
  /\ hooks[h].mounted
  /\ hooks[h].kind = "room"
  /\ HasRoom(hooks[h])
  /\ PutOf(hooks[h]) = NoPut
  /\ RoomToSend(h)
  /\ hooks' = [hooks EXCEPT ![h].page = SeekedPage(h, currentTime)]
  /\ inFlight' = SendAll(h, SeekedFrames(h, currentTime))
  /\ last' = NoEvent
  /\ UNCHANGED <<durable, registry, transport, delivered>>

\* VideoBrowser.handleSelectVideo: api.updateRoom(roomId, ...) with the
\* roomId the page passes, which is room.code; the page refreshes its room
\* when the call succeeds.
HandleSelectVideo(h) ==
  /\ hooks[h].mounted
  /\ hooks[h].kind = "room"
  /\ HasRoom(hooks[h])
  /\ PutOf(hooks[h]) = NoPut
  /\ hooks' = [hooks EXCEPT
                 ![h].page =
                    Page(RoomOf(hooks[h]),
                         Put(RoomOf(hooks[h]).code,
                             Updates("movie.mp4", "0", "false", Undefined),
                             TRUE))]
  /\ last' = NoEvent
  /\ UNCHANGED <<durable, registry, transport, order>>

\* The page's room after its api.updateRoom call resolved.
RoomAfterPut(h) ==
  IF PutOf(hooks[h]).refresh /\ UpdateRoomStatus(PutOf(hooks[h]).id) = 200
  THEN CHOOSE r \in UpdateRoomRows(PutOf(hooks[h]).id,
                                   PutOf(hooks[h]).updates) :
         r.code = hooks[h].roomCode
  ELSE RoomOf(hooks[h])

\* PUT /api/rooms/:id for the call the page of h awaits.
PutRoom(h) ==
  /\ HasRoom(hooks[h])
  /\ PutOf(hooks[h]) # NoPut
  /\ roomRows' = UpdateRoomRows(PutOf(hooks[h]).id, PutOf(hooks[h]).updates)
  /\ last' = UpdateRoomEvent(PutOf(hooks[h]).id)
  /\ hooks' = [hooks EXCEPT ![h].page = Page(RoomAfterPut(h), NoPut)]
  /\ UNCHANGED <<rooms, accounts, roomParticipants, roomJoinRequests, nextId,
                 registry, transport, order>>

\* A merge written with || in place of ??: false and 0 fall back too.
FalsyCoalesce(value, fallback) ==
  IF value \in {Undefined, "null", "false", "0"} THEN fallback ELSE value

\* value ?? fallback.
NullishCoalesce(value, fallback) ==
  IF value \in {Undefined, "null"} THEN fallback ELSE value

\* The room setRoom stores in handleRoomUpdate: each of the four fields is
\* payload.field ?? prev.field, the rest is ...prev.
Reconcile(prev, payload) ==
  [f \in DOMAIN prev |->
     IF f \in RoomFields THEN NullishCoalesce(payload[f], prev[f])
     ELSE prev[f]]

\* handleRoomUpdate(payload): the page's room is reconciled with the
\* payload; a page without room stays without.
handleRoomUpdate(hk, payload) ==
  IF HasRoom(hk)
  THEN Page(Reconcile(RoomOf(hk), payload.fields), PutOf(hk))
  ELSE NoPage

\* onmessage of the page's socket for the oldest message sent to it: a
\* room_update goes to handleRoomUpdate; a seek moves the player only.
OnRoomFrame(h) ==
  /\ hooks[h].wsRef # NoSocket
  /\ clientState[hooks[h].wsRef] = "OPEN"
  /\ delivered[hooks[h].wsRef] # << >>
  /\ hooks' = IF Head(delivered[hooks[h].wsRef]).msg.type = "room_update"
              THEN [hooks EXCEPT
                      ![h].page =
                         handleRoomUpdate(hooks[h],
                           Head(delivered[hooks[h].wsRef]).msg.payload)]
              ELSE hooks
  /\ delivered' = [delivered EXCEPT ![hooks[h].wsRef] = Tail(@)]
  /\ last' = NoEvent
  /\ UNCHANGED <<durable, registry, transport, inFlight>>

\* ------------------------------------------------- specifications
\* The frames of the synchronisation specification: every frame that names
\* a room code in its join, the frame without a type and the frame that
\* is no JSON.
SyncFrames ==
  {m \in Messages : m.type = "join" => m.roomCode # Undefined}

\* The sockets that connect in the admission scenario.
LobbySockets == {ws \in Sockets : ws <= MaxLobbySockets}

\* The join frames for the room of the admission scenario.
JoinFrames == {m \in Messages : m.type = "join" /\ m.roomCode = "ABC123"}

\* The synchronisation broadcaster and the connection registry.
NextSync ==
  \/ \E ws \in Sockets : OnConnection(ws)
  \/ \E ws \in Sockets, message \in SyncFrames : OnMessage(ws, message)
  \/ \E ws \in Sockets : BeginClose(ws)
  \/ \E ws \in Sockets : OnClose(ws)

SpecSync == Init /\ [][NextSync]_vars

\* The admission controller, the room routes and the sockets that join.
NextAdmission ==
  \/ \E username \in {"alice", ""} : CreateRoom(username, "ABC123")
  \/ \E code \in RoomCodes, username \in Users \cup {""} :
       JoinRoom(code, username)
  \/ \E userId \in Users : CreateJoinRequest("ABC123", userId)
  \/ \E requestId \in 1..MaxIds : ApproveJoinRequest("ABC123", requestId)
  \/ \E requestId \in 1..MaxIds : RejectJoinRequest("ABC123", requestId)
  \/ \E username \in Users : UpdateParticipantStatus("ABC123", username)
  \/ \E ws \in LobbySockets : OnConnection(ws)
  \/ \E ws \in LobbySockets, message \in JoinFrames : OnMessage(ws, message)
  \/ \E ws \in LobbySockets : BeginClose(ws)
  \/ \E ws \in LobbySockets : OnClose(ws)

SpecAdmission == Init /\ [][NextAdmission]_vars

\* The client hook against the WebSocket server.
NextClient ==
  \/ \E h \in Hooks, kind \in PageKinds, userId \in Users :
       Mount(h, kind, "ABC123", userId)
  \/ \E h \in Hooks : Unmount(h)
  \/ \E ws \in Sockets : OnOpen(ws)
  \/ \E ws \in Sockets : OnHookJoin(ws)
  \/ \E ws \in Sockets : ClientClose(ws)
  \/ \E h \in Hooks : ReconnectTimeout(h)
  \/ \E ws \in Sockets : BeginClose(ws)
  \/ \E ws \in Sockets : OnClose(ws)

SpecClient == Init /\ [][NextClient]_vars

\* The hook instances of waiting users.
LobbyHooks == {h \in Hooks : h <= MaxLobbySockets}

\* An approval_status frame sent to the open socket of a waiting page has
\* not been taken by its onmessage.
FramePending ==
  \E d \in last.deliveries : \E h \in LobbyHooks :
    /\ d.msg.type = "approval_status"
    /\ hooks[h].wsRef = d.to
    /\ clientState[d.to] = "OPEN"

\* Waiting users on the lobby page, the host's approve and reject, and the
\* approval_status frames that reach the waiting users' sockets; a page
\* takes the frames sent to it before the next request is handled.
NextLobby ==
  \/ \E h \in LobbyHooks : OnApprovalStatus(h)
  \/ ~FramePending /\ CreateRoom("alice", "ABC123")
  \/ \E userId \in Users :
       ~FramePending /\ CreateJoinRequest("ABC123", userId)
  \/ \E requestId \in 1..MaxIds :
       ~FramePending /\ ApproveJoinRequest("ABC123", requestId)
  \/ \E requestId \in 1..MaxIds :
       ~FramePending /\ RejectJoinRequest("ABC123", requestId)
  \/ \E h \in LobbyHooks, userId \in Users :
       /\ ~FramePending
       /\ NewSocket(h) \in LobbySockets
       /\ Mount(h, "lobby", "ABC123", userId)
  \/ \E ws \in LobbySockets : ~FramePending /\ OnOpen(ws)
  \/ \E ws \in LobbySockets : ~FramePending /\ OnHookJoin(ws)

\* The browser and the transport do not stop while they have a step to
\* take: an opening socket opens, a frame sent is handled, a frame received
\* is passed to onmessage.
SpecLobby ==
  /\ Init
  /\ [][NextLobby]_vars
  /\ WF_vars(\E ws \in LobbySockets : ~FramePending /\ OnOpen(ws))
  /\ WF_vars(\E ws \in LobbySockets : ~FramePending /\ OnHookJoin(ws))
  /\ WF_vars(\E h \in LobbyHooks : OnApprovalStatus(h))

\* The bodies of the PUT requests of the store scenario: play, and a seek
\* back to the start.
StoreUpdates ==
  {Updates(Undefined, "42.5", "true", Undefined),
   Updates(Undefined, "0", Undefined, Undefined)}

\* The frames of the store scenario.
StoreFrames ==
  {InMsg("join", "ABC123", "alice", NoPayload),
   InMsg("seek", Undefined, "alice",
         [kind |-> "object", position |-> "42.5", fields |-> Undefined]),
   InMsg("room_update", Undefined, Undefined,
         [kind |-> "object", position |-> Undefined,
          fields |-> "playback_position"])}

\* The routes that write the rooms table, next to the WebSocket handlers
\* of a connection.
NextStore ==
  \/ \E code \in RoomCodes : CreateRoom("alice", code)
  \/ \E id \in RoomIds \cup RoomCodes, updates \in StoreUpdates :
       UpdateRoom(id, updates)
  \/ \E ws \in LobbySockets : OnConnection(ws)
  \/ \E ws \in LobbySockets, message \in StoreFrames : OnMessage(ws, message)
  \/ \E ws \in LobbySockets : BeginClose(ws)
  \/ \E ws \in LobbySockets : OnClose(ws)

SpecStore == Init /\ [][NextStore]_vars

\* The routes that create users and rooms: signups, and room creations
\* with the codes generateRoomCode draws.
NextAccounts ==
  \/ \E email \in Emails \cup {""}, password \in Passwords \cup {""} :
       Signup(email, password)
  \/ \E draws \in Draws : CreateRoom("alice", RetryCode(draws, 0))
  \/ \E id \in RoomIds, updates \in StoreUpdates : UpdateRoom(id, updates)

SpecAccounts == Init /\ [][NextAccounts]_vars

\* The room pages of the scenario: one for each user.
RoomPages ==
  {[h |-> 1, userId |-> "alice"], [h |-> MaxHooks, userId |-> "bob"]}

\* Two room pages on one room: the participants change the room, the
\* server forwards and stores, the pages take what is sent to them. The
\* join of onopen is handled before the frames sent after it.
NextRoom ==
  \/ CreateRoom("alice", "ABC123")
  \/ \E page \in RoomPages : Mount(page.h, "room", "ABC123", page.userId)
  \/ \E h \in Hooks : FetchRoom(h)
  \/ \E ws \in Sockets : OnOpen(ws)
  \/ \E ws \in Sockets : OnHookJoin(ws)
  \/ \E h \in Hooks :
       \E updates \in PageUpdates(hooks[h]) : UpdateRoomState(h, updates)
  \/ \E h \in Hooks, t \in Positions : HandleVideoTimeUpdate(h, t)
  \/ \E h \in Hooks, t \in Positions : OnSeeked(h, t)
  \/ \E h \in Hooks : HandleSelectVideo(h)
  \/ \E h \in Hooks : PutRoom(h)
  \/ \E ws \in Sockets : ws \notin outbox /\ Receive(ws)
  \/ \E h \in Hooks : OnRoomFrame(h)

\* Nothing that is under way stops: a connecting socket opens, a frame
\* sent is handled, a message sent to a page is taken, an HTTP call is
\* answered.
SpecRoom ==
  /\ Init
  /\ [][NextRoom]_vars
  /\ \A ws \in Sockets : WF_vars(OnOpen(ws))
  /\ \A ws \in Sockets : WF_vars(OnHookJoin(ws))
  /\ \A ws \in Sockets : WF_vars(ws \notin outbox /\ Receive(ws))
  /\ \A h \in Hooks : WF_vars(PutRoom(h))
  /\ \A h \in Hooks : WF_vars(OnRoomFrame(h))

\* The frames of the ordering scenario.
OrderFrames ==
  {InMsg("join", "ABC123", "alice", NoPayload),
   InMsg("seek", Undefined, "alice",
         [kind |-> "object", position |-> "42.5", fields |-> Undefined])}
  \cup {InMsg("room_update", Undefined, Undefined, p) : p \in UpdatePayloads}

\* The connections of the ordering scenario: a pair, each of which sends
\* and receives.
OrderSockets == {ws \in Sockets : ws <= 2}

\* Clients that send frames on open sockets, handled in arrival order.
NextOrder ==
  \/ \E ws \in OrderSockets : OnConnection(ws)
  \/ \E ws \in OrderSockets, message \in OrderFrames : Send(ws, message)
  \/ \E ws \in OrderSockets : Receive(ws)

SpecOrder == Init /\ [][NextOrder]_vars

\* ------------------------------------------------- properties
\* The open sockets the registry holds for a room.
OpenInRoom(roomCode) ==
  IF roomCode \in DOMAIN roomConnections
  THEN {c \in roomConnections[roomCode] : readyState[c] = "OPEN"}
  ELSE {}

\* The sockets registered for a room under an identity.
RegisteredAs(roomCode, username) ==
  {ws \in Sockets :
     /\ connections[ws] = RoomConnection(roomCode, username)
     /\ roomCode \in DOMAIN roomConnections
     /\ ws \in roomConnections[roomCode]}

\* The identity has an active participant row in the room.
IsActive(roomCode, username) ==
  \E p \in listParticipants(roomCode) :
    p.username = username /\ p.status = "active"

\* The identity has a participant row with status left in the room.
HasLeft(roomCode, username) ==
  \E p \in listParticipants(roomCode) :
    p.username = username /\ p.status = "left"

\* C1: an identity whose join request for a room is pending or rejected,
\* and that has no active participant row there, has no connection
\* registered for that room.
C1_PendingNeverRegistered ==
  \A q \in roomJoinRequests :
    (q.status \in {"pending", "rejected"} /\ ~IsActive(q.roomId, q.userId))
      => RegisteredAs(q.roomId, q.userId) = {}

\* C2: the fan-out of a room_update frame is never delivered to the
\* connection that sent the frame.
C2_RoomUpdateNotToSender ==
  last.op = "room_update" => \A d \in last.deliveries : d.to # last.ws

\* C3: a seek frame with position p from a joined connection A is delivered
\* exactly once to every other open connection of A's room, as a seek
\* message with position p and A's registered username, and not to A.
C3_SeekFanOut ==
  (/\ last.op = "seek"
   /\ connections[last.ws] # NoConn
   /\ last.message.payload.kind # Undefined)
    => last.deliveries =
         {[to |-> c,
           msg |-> Seek(last.message.payload.position,
                        connections[last.ws].username)] :
            c \in OpenInRoom(connections[last.ws].roomCode) \ {last.ws}}

C5_OneEntryPerReconnect ==
  \A a, b \in Sockets :
    (/\ a # b
     /\ hookOf[a] # NoHook
     /\ hookOf[a] = hookOf[b]
     /\ connections[a] # NoConn)
      => ~(b \in RegisteredAs(connections[a].roomCode, connections[a].username)
           /\ a \in RegisteredAs(connections[a].roomCode, connections[a].username))

\* C6: a request that is approved or rejected keeps its status for ever,
\* and approve or reject of it changes no table, sends nothing and answers
\* without an error.
C6_ResolvedOnce ==
  [][\A q \in roomJoinRequests :
       q.status # "pending" =>
         /\ q \in roomJoinRequests'
         /\ (last'.op \in {"approve", "reject"} /\ last'.arg.id = q.id) =>
              /\ UNCHANGED durable
              /\ last'.status = 200
              /\ last'.deliveries = {}]_vars

\* C6: approve has been called on a request that was rejected before.
C6_Witness ==
  /\ last.op = "approve"
  /\ \E q \in roomJoinRequests : q.id = last.arg.id /\ q.status = "rejected"

\* C7: a second successful join call for the same room and identity, right
\* after the first, creates no second record.
C7_RequestJoinIdempotent ==
  [][(/\ last.op = "joinRoom"
      /\ last.status = 200
      /\ last'.op = "joinRoom"
      /\ last'.status = 200
      /\ last'.arg = last.arg)
       => UNCHANGED <<roomParticipants, roomJoinRequests>>]_vars

C9_ActiveOnlyByApprove ==
  [][\A r \in rooms : \A u \in Users :
       (~IsActive(r, u) /\ ~HasLeft(r, u) /\ IsActive(r, u)')
         => (last'.op = "approve" /\ last'.arg.code = r
             /\ last'.arg.username = u)]_vars

C11_UnknownRoomRejected ==
  [][(/\ last'.op = "joinRoom"
      /\ last'.arg.username # ""
      /\ last'.arg.code \notin rooms)
       => (last'.status = 404 /\ UNCHANGED durable)]_vars

\* C11: a join call was answered 404 while another room existed.
C11_Witness ==
  /\ last.op = "joinRoom"
  /\ last.status = 404
  /\ last.arg.username # ""
  /\ rooms # {}
  /\ last.arg.code \notin rooms

\* C12: a room holds at most one active participant for each identity.
C12_OneActivePerIdentity ==
  \A r \in rooms : \A u \in Users :
    Cardinality({p \in listParticipants(r) :
                   p.username = u /\ p.status = "active"}) <= 1

\* C13: every room has exactly one participant that holds the host flag.
C13_ExactlyOneHost ==
  \A r \in rooms :
    Cardinality({p \in listParticipants(r) : p.isHost}) = 1

\* C14: a join frame for room R registers the connection for R, and
\* user_joined with its username goes to every other open connection of R
\* and not to the joining connection.
C14_JoinFanOut ==
  (last.op = "join" /\ last.message.roomCode # Undefined) =>
    /\ last.ws \in RegisteredAs(last.message.roomCode, last.message.username)
    /\ last.deliveries =
         {[to |-> c, msg |-> UserJoined(last.message.username)] :
            c \in OpenInRoom(last.message.roomCode) \ {last.ws}}

\* C15: a room_update frame of a joined connection reaches every other
\* open connection of the sender's room, and every room_update sent for it
\* carries the payload of the frame unchanged.
C15_PayloadVerbatim ==
  (last.op = "room_update" /\ connections[last.ws] # NoConn) =>
    /\ \A c \in OpenInRoom(connections[last.ws].roomCode) \ {last.ws} :
         [to |-> c, msg |-> RoomUpdate(last.message.payload)]
           \in last.deliveries
    /\ \A d \in last.deliveries :
         /\ d.msg.type = "room_update"
         /\ d.msg.payload = last.message.payload

\* C15: a room_update with a payload was forwarded to another connection.
C15_Witness ==
  /\ last.op = "room_update"
  /\ last.message.payload # NoPayload
  /\ \E d \in last.deliveries : d.to # last.ws

C19_UnjoinedIgnored ==
  [][\A ws \in Sockets :
       (/\ last'.op \in {"room_update", "seek"}
        /\ last'.ws = ws
        /\ connections[ws] = NoConn)
         => /\ last'.deliveries = {}
            /\ UNCHANGED registry
            /\ readyState'[ws] = "OPEN"]_vars

\* C19: an unjoined connection sent room_update or seek while another
\* connection was open in a room.
C19_Witness ==
  /\ last.op \in {"room_update", "seek"}
  /\ connections[last.ws] = NoConn
  /\ readyState[last.ws] = "OPEN"
  /\ \E k \in DOMAIN roomConnections : OpenInRoom(k) # {}

\* C20: a frame that is no JSON, or that has no type, is dropped: nothing
\* is sent, the registry is unchanged and the connection stays open, so
\* that its later frames are handled.
C20_MalformedDropped ==
  [][\A ws \in Sockets :
       (/\ last'.ws = ws
        /\ last'.message.type \in {Undefined, "#unparseable"}
        /\ last'.message # NoMessage)
         => /\ last'.op = "dropped"
            /\ last'.deliveries = {}
            /\ UNCHANGED registry
            /\ readyState'[ws] = "OPEN"]_vars

\* C20: a joined connection sent a frame that is no JSON, is still
\* registered and is still open.
C20_Witness ==
  /\ last.op = "dropped"
  /\ last.message.type = "#unparseable"
  /\ connections[last.ws] # NoConn
  /\ readyState[last.ws] = "OPEN"
  /\ \E c \in OpenInRoom(connections[last.ws].roomCode) : c # last.ws

RequestStatuses(roomCode, userId) ==
  {q.status : q \in {r \in roomJoinRequests :
                       r.roomId = roomCode /\ r.userId = userId}}

\* C21: a waiting user whose only join request is approved in the store
\* is eventually shown approved, and one whose only request is rejected is
\* eventually shown rejected, whether a broadcast reached it or not.
C21_WaitingClientCatchesUp ==
  \A h \in LobbyHooks :
    /\ (hooks[h].mounted
        /\ RequestStatuses(hooks[h].roomCode, hooks[h].userId) = {"approved"})
         ~> (hooks[h].status = "approved")
    /\ (hooks[h].mounted
        /\ RequestStatuses(hooks[h].roomCode, hooks[h].userId) = {"rejected"})
         ~> (hooks[h].status = "rejected")

\* C22: the approval status a mounted page shows changes only when its
\* socket takes an approval_status frame whose userId is the identity of
\* the page.
C22_OnlyAddresseeReacts ==
  [][\A h \in Hooks :
       (/\ hooks[h].mounted
        /\ hooks'[h].mounted
        /\ hooks'[h].status # hooks[h].status)
         => \E d \in last.deliveries :
              /\ d \notin last'.deliveries
              /\ d.to = hooks[h].wsRef
              /\ d.msg.type = "approval_status"
              /\ d.msg.userId = hooks[h].userId]_vars

\* C22: the socket of a waiting page has taken the approval_status frame
\* of another identity's approve, and the page still shows pending.
C22_Witness ==
  /\ last.op = "approve"
  /\ last.status = 200
  /\ \E h \in Hooks :
       /\ hooks[h].mounted
       /\ hooks[h].userId # last.arg.username
       /\ hooks[h].wsRef \in OpenInRoom(last.arg.code)
       /\ clientState[hooks[h].wsRef] = "OPEN"
       /\ \A d \in last.deliveries : d.to # hooks[h].wsRef
       /\ hooks[h].status = "pending"

\* The room a handler broadcast for: the room the join frame names, the
\* room of the closed connection, or the room of the sender's entry.
BroadcastRoom ==
  IF last.op = "join" THEN last.message.roomCode
  ELSE IF last.op = "close" THEN last.arg.code
  ELSE connections[last.ws].roomCode

\* C23: every user_joined, user_left, room_update and seek a handler sends
\* goes to a connection whose current registration is the room the
\* broadcast is for.
C23_RoomIsolation ==
  \A d \in last.deliveries :
    d.msg.type \in {"user_joined", "user_left", "room_update", "seek"} =>
      /\ connections[d.to] # NoConn
      /\ connections[d.to].roomCode = BroadcastRoom

\* C24: no room code maps to an empty set, and no room set holds a
\* connection whose close handler has run.
C24_NoEmptyNoClosed ==
  \A k \in DOMAIN roomConnections :
    /\ roomConnections[k] # {}
    /\ \A ws \in roomConnections[k] : readyState[ws] # "CLOSED"

\* C25: a join frame that repeats the registration the connection already
\* has leaves connections and roomConnections as they are.
C25_RegisterIdempotent ==
  [][(/\ last'.op = "join"
      /\ connections[last'.ws] =
           RoomConnection(last'.message.roomCode, last'.message.username))
       => UNCHANGED registry]_vars

\* C25: a connection has sent the same join frame twice, both were
\* handled, and it has one entry in connections and is once in the set.
C25_Witness ==
  /\ last.op = "join"
  /\ Len(delivered[last.ws]) = 2
  /\ \A i \in 1..2 :
       /\ delivered[last.ws][i].from = last.ws
       /\ delivered[last.ws][i].seq = i
       /\ delivered[last.ws][i].msg = UserJoined(last.message.username)
  /\ connections[last.ws] =
       RoomConnection(last.message.roomCode, last.message.username)
  /\ roomConnections[last.message.roomCode] = {last.ws}

\* The roles the user_roles table holds for a user.
RolesOf(userId) ==
  {r.role : r \in {q \in userRoles : q.userId = userId}}

\* C26: the handler of a frame or of a close changes no rooms row, and
\* the stored playback position of a room changes only in a step of
\* PUT /api/rooms/:id.
C26_HandlersLeaveRoomsAlone ==
  [][/\ last'.op \in {"join", "room_update", "seek", "dropped", "close"}
          => UNCHANGED <<rooms, roomRows>>
     /\ \A r \in roomRows : \A q \in roomRows' :
          (q.id = r.id /\ q.playback_position # r.playback_position)
            => last'.op = "updateRoom"]_vars

\* C26: a seek of a joined connection was forwarded for a stored room
\* whose row holds another position than the one the frame announces.
C26_Witness ==
  /\ last.op = "seek"
  /\ last.deliveries # {}
  /\ \E r \in roomRows :
       /\ r.code = connections[last.ws].roomCode
       /\ r.playback_position # last.message.payload.position

\* C29: the user of the first users row holds the admin role, every
\* later user holds only the user role, and a signup with a registered
\* email answers 400 and leaves users and user_roles as they are.
C29_FirstUserIsAdmin ==
  [][/\ \A i \in DOMAIN users' :
          IF i = 1 THEN "admin" \in RolesOf(users[i].id)'
          ELSE RolesOf(users[i].id)' = {"user"}
     /\ (last'.op = "signup" /\ existing(last'.arg.username) # {})
          => (last'.status = 400 /\ UNCHANGED <<users, userRoles>>)]_vars

\* C29: a second user has signed up and the signup that followed named a
\* registered email.
C29_Witness ==
  /\ Len(users) = 2
  /\ last.op = "signup"
  /\ last.status = 400
  /\ existing(last.arg.username) # {}

\* C30: no two rooms rows share a code, and a creation whose code is
\* stored already inserts nothing.
C30_CodesDistinct ==
  [][/\ \A r \in roomRows' : \A q \in roomRows' : r.code = q.code => r = q
     /\ (last'.op = "createRoom" /\ CodeTaken(last'.arg.code))
          => UNCHANGED <<rooms, roomRows>>]_vars

\* C30: every room code is stored and a creation ended its retries on a
\* stored code.
C30_Witness ==
  /\ {r.code : r \in roomRows} = RoomCodes
  /\ last.op = "createRoom"
  /\ last.status = 500

\* The page has its room and its socket is open and in the room's set.
Connected(g) ==
  /\ hooks[g].mounted
  /\ hooks[g].kind = "room"
  /\ HasRoom(hooks[g])
  /\ hooks[g].wsRef # NoSocket
  /\ clientState[hooks[g].wsRef] = "OPEN"
  /\ hooks[g].wsRef \in OpenInRoom(hooks[g].roomCode)

\* The room a page shows has the values the updates carry.
Observes(room, updates) ==
  \A f \in RoomFields : updates[f] # Undefined => room[f] = updates[f]

\* The bodies updateRoomState is called with in the room scenario.
RoomMutations ==
  {Updates(Undefined, t, p, Undefined) :
     t \in Positions, p \in {"true", "false", Undefined}}

\* C27: when a participant has changed the room through updateRoomState,
\* every other participant that is connected to the room eventually shows
\* the changed values, unless it disconnects.
C27_MutationObserved ==
  \A h \in Hooks : \A g \in Hooks \ {h} : \A u \in RoomMutations :
    (/\ HasRoom(hooks[h])
     /\ PutOf(hooks[h]) = Put(RoomOf(hooks[h]).id, u, FALSE)
     /\ Connected(g)
     /\ hooks[g].roomCode = hooks[h].roomCode)
      ~> (~Connected(g) \/ Observes(RoomOf(hooks[g]), u))

\* The frames a step has added to those in flight on ws.
Sent(ws) ==
  {inFlight'[ws][i].frame :
     i \in (Len(inFlight[ws]) + 1)..Len(inFlight'[ws])}

\* C28: a step in which a page sends a room_update or a seek also makes
\* the page call api.updateRoom for its room with the values the frame
\* carries.
C28_SentIsStored ==
  [][\A h \in Hooks :
       hooks[h].wsRef # NoSocket =>
         \A frame \in Sent(hooks[h].wsRef) :
           /\ PutOf(hooks'[h]) # PutOf(hooks[h])
           /\ PutOf(hooks'[h]).id = RoomOf(hooks[h]).id
           /\ frame.type = "room_update"
                => PutOf(hooks'[h]).updates = frame.payload.fields
           /\ frame.type = "seek"
                => PutOf(hooks'[h]).updates.playback_position
                     = frame.payload.position]_vars

\* ------------------------------------------------- PUT bodies
\* The bodies of the PUT requests of the update scenario: no field, one
\* field with a value of the type the handler asks for, one field with a
\* value of another type, and mixtures of the two.
PutBodies ==
  {NoUpdates,
   Updates("movie.mp4", Undefined, Undefined, Undefined),
   Updates(Undefined, "42.5", Undefined, Undefined),
   Updates(Undefined, "-5", Undefined, Undefined),
   Updates(Undefined, Undefined, "true", Undefined),
   Updates(Undefined, Undefined, Undefined, "true"),
   Updates("42.5", Undefined, Undefined, Undefined),
   Updates(Undefined, "null", Undefined, Undefined),
   Updates(Undefined, Undefined, "0", Undefined),
   Updates(Undefined, Undefined, Undefined, "yes"),
   Updates("movie.mp4", "true", "false", "0"),
   Updates("true", "0", "yes", "false")}

\* Rooms are created and updated over HTTP, with ids of stored rooms and
\* with ids no room has: there are more ids than rooms.
NextUpdate ==
  \/ \E code \in RoomCodes : CreateRoom("alice", code)
  \/ \E id \in RoomIds, updates \in PutBodies : UpdateRoom(id, updates)

SpecUpdate == Init /\ [][NextUpdate]_vars

\* The JSON number is below zero.
IsNegative(value) ==
  value \in JsonNumbers /\ value = "-5"

\* C31: the stored playback position of every room is non-negative in
\* every reachable state, whatever playback_position a PUT carries.
C31_PositionNonNegative ==
  \A r \in roomRows :
    typeof(r.playback_position) = "number" /\ ~IsNegative(r.playback_position)

\* The row of the room with the id.
RowOf(table, id) ==
  CHOOSE r \in table : r.id = id

NextFrames ==
  \/ \E ws \in Sockets : OnConnection(ws)
  \/ \E ws \in Sockets, message \in Messages : OnMessage(ws, message)
  \/ \E ws \in Sockets : BeginClose(ws)
  \/ \E ws \in Sockets : OnClose(ws)

SpecFrames == Init /\ [][NextFrames]_vars

\* C32: a join frame without a room code leaves the connection unjoined:
\* the registry stays as it was and nothing is broadcast.
C32_JoinNeedsRoomCode ==
  [][(last'.op = "join" /\ last'.message.roomCode = Undefined)
       => /\ UNCHANGED registry
          /\ last'.deliveries = {}]_vars

\* The last handler reached a broadcastToRoom call.
Broadcasts ==
  \/ last.op = "join"
  \/ last.op = "close" /\ last.arg.code # Undefined
  \/ last.op = "room_update" /\ connections[last.ws] # NoConn
  \/ /\ last.op = "seek"
     /\ connections[last.ws] # NoConn
     /\ last.message.payload.kind # Undefined

\* C33: a broadcast is delivered to open connections only, and a
\* registered connection that is not open does not keep it from any open
\* connection of the room: the receivers are exactly the open connections
\* of the room's set.
C33_OnlyOpenReceive ==
  /\ \A d \in last.deliveries : readyState[d.to] = "OPEN"
  /\ Broadcasts => {d.to : d \in last.deliveries} = OpenInRoom(BroadcastRoom)

\* C33: a broadcast was delivered for a room whose set holds a connection
\* that is not open.
C33_Witness ==
  /\ Broadcasts
  /\ last.deliveries # {}
  /\ BroadcastRoom \in DOMAIN roomConnections
  /\ \E c \in roomConnections[BroadcastRoom] : readyState[c] # "OPEN"

\* ------------------------------------------------- reconnect
\* The hook instance of the reconnect scenario.
ReconnectHooks == {1}

\* A room page whose open socket drops, with a server that is reachable:
\* the live connection is lost, the server comes to see the loss and
\* releases the socket, the timer runs connect() once a socket can be
\* created.
NextReconnect ==
  \/ \E h \in ReconnectHooks, userId \in Users :
       Mount(h, "room", "ABC123", userId)
  \/ \E h \in ReconnectHooks : Unmount(h)
  \/ \E ws \in Sockets : OnOpen(ws)
  \/ \E ws \in Sockets : OnHookJoin(ws)
  \/ \E ws \in Sockets : clientState[ws] = "OPEN" /\ ClientClose(ws)
  \/ \E h \in ReconnectHooks : FreeSockets(h) # {} /\ ReconnectTimeout(h)
  \/ \E ws \in Sockets : clientState[ws] = "CLOSED" /\ BeginClose(ws)
  \/ \E ws \in Sockets : OnClose(ws)

\* The 3 s timer of onclose fires; the upgrade of a new socket completes
\* and its join is handled; the server closes the socket the client lost.
SpecReconnect ==
  /\ Init
  /\ [][NextReconnect]_vars
  /\ \A h \in ReconnectHooks :
       WF_vars(FreeSockets(h) # {} /\ ReconnectTimeout(h))
  /\ \A ws \in Sockets : WF_vars(OnOpen(ws))
  /\ \A ws \in Sockets : WF_vars(OnHookJoin(ws))
  /\ \A ws \in Sockets : WF_vars(clientState[ws] = "CLOSED" /\ BeginClose(ws))
  /\ \A ws \in Sockets : WF_vars(OnClose(ws))

\* The socket of the mounted instance has dropped.
Dropped(h) ==
  /\ hooks[h].mounted
  /\ hooks[h].wsRef # NoSocket
  /\ clientState[hooks[h].wsRef] = "CLOSED"

\* The instance holds an open socket on which its join was sent: the
\* join is on its way or has registered the socket for the instance's
\* room and identity.
Rejoined(h) ==
  /\ hooks[h].wsRef # NoSocket
  /\ clientState[hooks[h].wsRef] = "OPEN"
  /\ \/ hooks[h].wsRef \in outbox
     \/ connections[hooks[h].wsRef] =
          RoomConnection(hooks[h].roomCode, hooks[h].userId)

OnRoomUpdate(h, payload) ==
  /\ hooks[h].mounted
  /\ hooks[h].kind = "room"
  /\ hooks' = [hooks EXCEPT ![h].page = handleRoomUpdate(hooks[h], payload)]
  /\ last' = Event("onRoomUpdate", hooks[h].wsRef,
                   InMsg("room_update", Undefined, Undefined, payload),
                   NoArg, 0, NoId, {})
  /\ UNCHANGED <<durable, registry, transport, order>>

\* The payloads of the reconciliation scenario: each field is absent,
\* null, or a value, false and 0 among the values.
ReconcilePayloads ==
  {[kind |-> "object", position |-> Undefined,
    fields |-> Updates(video_url, playback_position, is_playing,
                       subtitle_enabled)] :
     video_url \in {Undefined, "null", "movie.mp4"},
     playback_position \in {Undefined, "0", "42.5", "-5"},
     is_playing \in {Undefined, "true", "false"},
     subtitle_enabled \in {Undefined, "true", "false"}}

\* A room page that fetches its room and takes room_update payloads.
NextReconcile ==
  \/ CreateRoom("alice", "ABC123")
  \/ \E h \in ReconnectHooks, userId \in Users :
       Mount(h, "room", "ABC123", userId)
  \/ \E h \in ReconnectHooks : FetchRoom(h)
  \/ \E ws \in Sockets : OnOpen(ws)
  \/ \E h \in ReconnectHooks, payload \in ReconcilePayloads :
       OnRoomUpdate(h, payload)

SpecReconcile == Init /\ [][NextReconcile]_vars

\* The payload carries a value for the field.
Carries(payload, f) ==
  payload.fields[f] \notin {Undefined, "null"}

\* C36: handleRoomUpdate gives each of the four fields of the page's room
\* the payload's value when the payload carries one, false and 0
\* included, and leaves it at its local value otherwise; nothing else of
\* the page's room changes.
C36_Reconcile ==
  [][\A h \in ReconnectHooks :
       (last'.op = "onRoomUpdate" /\ HasRoom(hooks[h])) =>
         /\ HasRoom(hooks'[h])
         /\ RoomOf(hooks'[h]).id = RoomOf(hooks[h]).id
         /\ RoomOf(hooks'[h]).code = RoomOf(hooks[h]).code
         /\ \A f \in RoomFields :
              RoomOf(hooks'[h])[f] =
                IF Carries(last'.message.payload, f)
                THEN last'.message.payload.fields[f]
                ELSE RoomOf(hooks[h])[f]]_vars

\* C36: a payload that carries is_playing false and position 0 and no
\* video_url was taken by a page that shows a video: the page keeps the
\* video and shows the room paused at 0.
C36_Witness ==
  \E h \in ReconnectHooks :
    /\ last.op = "onRoomUpdate"
    /\ last.message.payload.fields.is_playing = "false"
    /\ last.message.payload.fields.playback_position = "0"
    /\ last.message.payload.fields.video_url = Undefined
    /\ HasRoom(hooks[h])
    /\ RoomOf(hooks[h]).video_url = "movie.mp4"
    /\ RoomOf(hooks[h]).is_playing = "false"
    /\ RoomOf(hooks[h]).playback_position = "0"

\* C37: a connection is in the set of room R exactly when its entry in
\* connections names R, so that no connection is in two room sets.
C37_RegistryConsistent ==
  \A ws \in Sockets : \A k \in RoomCodes :
    (k \in DOMAIN roomConnections /\ ws \in roomConnections[k])
      <=> (connections[ws] # NoConn /\ connections[ws].roomCode = k)

\* C38: the username of every seek a handler forwards is the name the
\* sending connection registered when it joined.
C38_SeekCarriesRegisteredName ==
  last.op = "seek" =>
    \A d \in last.deliveries :
      d.msg.username = connections[last.ws].username

\* ------------------------------------------------- player
\* The page renders its video element: it has a room with a video.
HasVideo(hk) ==
  HasRoom(hk) /\ RoomOf(hk).video_url # "null"

\* The player after handleSeek, or after handleRoomUpdate moved the
\* position: isSyncingRef is set and the video element will fire seeked.
\* A seeked event that is already due for the user's own seek stays the
\* user's.
Synced(player) ==
  Player(TRUE, IF player.seeked = "user" THEN "user" ELSE "remote")

\* The user moves the position with the controls of the video element,
\* which will fire seeked.
UserSeek(h) ==
  /\ hooks[h].mounted
  /\ hooks[h].kind = "room"
  /\ HasVideo(hooks[h])
  /\ hooks[h].player.seeked = "none"
  /\ hooks' = [hooks EXCEPT ![h].player.seeked = "user"]
  /\ last' = NoEvent
  /\ UNCHANGED <<durable, registry, transport, order>>

\* The callback of setTimeout(..., 100) in handleSeek and
\* handleRoomUpdate: isSyncingRef.current = false.
SyncTimeout(h) ==
  /\ hooks[h].player.syncing
  /\ hooks' = [hooks EXCEPT ![h].player.syncing = FALSE]
  /\ last' = NoEvent
  /\ UNCHANGED <<durable, registry, transport, order>>

\* The video element fires seeked: the onSeeked handler sends the seek
\* and calls updateRoomState unless isSyncingRef is set.
SeekedEvent(h, currentTime) ==
  /\ hooks[h].mounted
  /\ hooks[h].kind = "room"
  /\ HasVideo(hooks[h])
  /\ hooks[h].player.seeked # "none"
  /\ IF hooks[h].player.syncing
     THEN /\ hooks' = [hooks EXCEPT ![h].player.seeked = "none"]
          /\ UNCHANGED inFlight
     ELSE /\ PutOf(hooks[h]) = NoPut
          /\ RoomToSend(h)
          /\ hooks' = [hooks EXCEPT ![h].page = SeekedPage(h, currentTime),
                                    ![h].player.seeked = "none"]
          /\ inFlight' = SendAll(h, SeekedFrames(h, currentTime))
  /\ last' = NoEvent
  /\ UNCHANGED <<durable, registry, transport, delivered>>

\* onmessage of the page's socket for the oldest message sent to it, with
\* the player: a room_update goes to handleRoomUpdate, which also moves
\* the position when the payload carries one that is more than 0.5 s from
\* the player's; a seek goes to handleSeek, which moves the position.
OnPlayerFrame(h) ==
  /\ hooks[h].wsRef # NoSocket
  /\ clientState[hooks[h].wsRef] = "OPEN"
  /\ delivered[hooks[h].wsRef] # << >>
  /\ IF Head(delivered[hooks[h].wsRef]).msg.type = "room_update"
     THEN \E moved \in BOOLEAN :
            /\ moved =>
                 /\ HasVideo(hooks[h])
                 /\ Head(delivered[hooks[h].wsRef]).msg.payload.fields
                      .playback_position # Undefined
            /\ hooks' =
                 [hooks EXCEPT
                    ![h].page =
                       handleRoomUpdate(hooks[h],
                         Head(delivered[hooks[h].wsRef]).msg.payload),
                    ![h].player = IF moved THEN Synced(@) ELSE @]
     ELSE IF /\ Head(delivered[hooks[h].wsRef]).msg.type = "seek"
             /\ HasVideo(hooks[h])
     THEN hooks' = [hooks EXCEPT ![h].player = Synced(@)]
     ELSE hooks' = hooks
  /\ delivered' = [delivered EXCEPT ![hooks[h].wsRef] = Tail(@)]
  /\ last' = NoEvent
  /\ UNCHANGED <<durable, registry, transport, inFlight>>

\* Two room pages on a room with a video: a user seeks, the server
\* forwards, the pages move their players.
NextEcho ==
  \/ CreateRoom("alice", "ABC123")
  \/ \E id \in RoomIds :
       UpdateRoom(id, Updates("movie.mp4", Undefined, Undefined, Undefined))
  \/ \E page \in RoomPages : Mount(page.h, "room", "ABC123", page.userId)
  \/ \E h \in Hooks : FetchRoom(h)
  \/ \E ws \in Sockets : OnOpen(ws)
  \/ \E ws \in Sockets : OnHookJoin(ws)
  \/ \E h \in Hooks : UserSeek(h)
  \/ \E h \in Hooks, t \in Positions : SeekedEvent(h, t)
  \/ \E h \in Hooks : SyncTimeout(h)
  \/ \E h \in Hooks : PutRoom(h)
  \/ \E ws \in Sockets : ws \notin outbox /\ Receive(ws)
  \/ \E h \in Hooks : OnPlayerFrame(h)

SpecEcho == Init /\ [][NextEcho]_vars

\* C39: the seeked event that follows the player being moved by an
\* inbound seek or room_update makes the page send nothing and call no
\* api.updateRoom, however long after the move it fires.
C39_NoEcho ==
  [][\A h \in Hooks :
       (/\ hooks[h].player.seeked = "remote"
        /\ hooks'[h].player.seeked = "none")
         => /\ PutOf(hooks'[h]) = PutOf(hooks[h])
            /\ hooks[h].wsRef # NoSocket => Sent(hooks[h].wsRef) = {}]_vars

\* The client holds the socket connecting or open.
Live(ws) ==
  hookOf[ws] # NoHook /\ clientState[ws] \in {"CONNECTING", "OPEN"}

\* ------------------------------------------------- one client
\* The pages of one browser tab: the tab shows one page at a time, the
\* lobby of a room and then the room, or another room; its sockets open,
\* join, drop and reconnect, and the server closes sockets.
NextTab ==
  \/ \E h \in Hooks, kind \in PageKinds, code \in RoomCodes, userId \in Users :
       /\ \A g \in Hooks : ~hooks[g].mounted
       /\ Mount(h, kind, code, userId)
  \/ \E h \in Hooks : Unmount(h)
  \/ \E ws \in Sockets : OnOpen(ws)
  \/ \E ws \in Sockets : OnHookJoin(ws)
  \/ \E ws \in Sockets : ClientClose(ws)
  \/ \E h \in Hooks : ReconnectTimeout(h)
  \/ \E ws \in Sockets : BeginClose(ws)
  \/ \E ws \in Sockets : OnClose(ws)

SpecTab == Init /\ [][NextTab]_vars

\* C40: of the sockets the client created for one room and identity, at
\* most one is connecting or open at any time.
C40_OneLiveSocket ==
  \A a, b \in Sockets :
    (/\ a # b
     /\ Live(a)
     /\ Live(b))
      => ~(/\ hooks[hookOf[a]].roomCode = hooks[hookOf[b]].roomCode
           /\ hooks[hookOf[a]].userId = hooks[hookOf[b]].userId)

====
